---- MODULE Spec2Model ----
(***************************************************************************)
(* Insight-to-job matching and narrative selection of job-analyzer-app     *)
(* (backend/jobs/insights_views.py, embedding_service.py, models.py).      *)
(*                                                                         *)
(* Scores are fixed-point numbers in hundredths: 100 is 1.0, 30 is 0.3.    *)
(* Strings are sequences of one-character strings, so that lower-casing    *)
(* and substring containment are computed, not assumed.                    *)
(* The relational store is PostgreSQL under READ COMMITTED: a row written  *)
(* inside transaction.atomic() carries the id of the writing worker until  *)
(* the block commits (ins) and a row deleted inside it is only marked      *)
(* (del) until then.                                                       *)
(***************************************************************************)
EXTENDS Integers, Sequences, FiniteSets, TLC

VARIABLES
    insights,    \* PersonalInsight table: id -> row
    matches,     \* JobInsightMatch table: set of rows, committed or pending
    narratives,  \* GeneratedNarrative table: set of rows
    pc,          \* per worker: position inside the request it is serving
    h,           \* per worker: local variables of the running handler
    resp,        \* per worker: the last response sent
    lastRun,     \* per job: result of the last completed matching run (history)
    reqs,        \* number of requests started so far
    b_in,        \* input of the category-bonus function (BonusSpec)
    b_out,       \* its result
    usages,      \* NarrativeInsightUsage rows
    career_categories,  \* CareerCategory rows: id -> keywords
    v_in,        \* arguments of an EmbeddingService call (VectorSpec, TopKSpec)
    v_out        \* what the call returned

vars == <<insights, matches, narratives, pc, h, resp, lastRun, reqs, b_in, b_out,
          usages, career_categories, v_in, v_out>>

---------------------------------------------------------------------------
(* Bounds *)

MaxReqs == 3
MaxKw == 3
MaxCandidates == 4

(* Program constants *)

DefaultTopK == 10
DefaultMinSimilarity == 30
MaxTopK == 50
DefaultCount == 5
BonusStep == 10
BonusCap == 30
One == 100

---------------------------------------------------------------------------
(* Strings *)

Lower(c) ==
    CASE c = "C" -> "c"
      [] c = "T" -> "t"
      [] c = "O" -> "o"
      [] c = "I" -> "i"
      [] OTHER -> c

LowerStr(s) == [i \in 1..Len(s) |-> Lower(s[i])]

\* Python's `kw in text`
Contains(text, kw) ==
    \E i \in 0..(Len(text) - Len(kw)) :
        \A k \in 1..Len(kw) : text[i + k] = kw[k]

\* Python's bool(text.strip())
Blank(s) == \A i \in 1..Len(s) : s[i] = " "

---------------------------------------------------------------------------
(* Vector math: EmbeddingService *)

NoEmbedding == <<>>

RECURSIVE Dot(_, _)
Dot(a, b) == IF a = <<>> THEN 0 ELSE a[1] * b[1] + Dot(Tail(a), Tail(b))

\* integer square root of a number up to 2500
ISqrt(x) == CHOOSE r \in 0..50 : r * r <= x /\ (r + 1) * (r + 1) > x

Sign(x) == IF x < 0 THEN -1 ELSE 1

Max(a, b) == IF a >= b THEN a ELSE b
Min(a, b) == IF a <= b THEN a ELSE b

\* a variant that returns the cosine itself, without the remapping to [0, 1]
CosineItself(embedding1, embedding2) ==
    IF embedding1 = NoEmbedding \/ embedding2 = NoEmbedding
          \/ Len(embedding1) # Len(embedding2)
    THEN 0
    ELSE LET dot_product == Dot(embedding1, embedding2)
             sq1 == Dot(embedding1, embedding1)
             sq2 == Dot(embedding2, embedding2)
         IN  IF sq1 = 0 \/ sq2 = 0
             THEN 0
             ELSE Sign(dot_product)
                  * ISqrt((2500 * dot_product * dot_product) \div (sq1 * sq2)) * 2

\* np.dot raises on operands it cannot multiply; the except clause returns 0.0
calculate_similarity(embedding1, embedding2) ==
    IF embedding1 = NoEmbedding \/ embedding2 = NoEmbedding
          \/ Len(embedding1) # Len(embedding2)
    THEN 0
    ELSE LET dot_product == Dot(embedding1, embedding2)
             sq1 == Dot(embedding1, embedding1)
             sq2 == Dot(embedding2, embedding2)
         IN  IF sq1 = 0 \/ sq2 = 0
             THEN 0
             ELSE LET half == Sign(dot_product)
                              * ISqrt((2500 * dot_product * dot_product) \div (sq1 * sq2))
                  IN  Max(0, Min(One, 50 + half))

\* np.dot raises ValueError for one-dimensional operands of different length
DotRaises(embedding1, embedding2) ==
    /\ embedding1 # NoEmbedding /\ embedding2 # NoEmbedding
    /\ Len(embedding1) # Len(embedding2)

\* whether an exception leaves calculate_similarity: `except Exception` catches
\* whatever the body raises and returns 0.0
SimilarityRaises(embedding1, embedding2) ==
    DotRaises(embedding1, embedding2) /\ FALSE

---------------------------------------------------------------------------
(* The same computation in binary floating point.  numpy computes in float64 *)
(* (53 significant bits); here a number is an integer count of 2^-FracBits   *)
(* and every operation rounds its exact result to SigBits significant bits,  *)
(* to nearest, ties to even.  On the vectors of VectorChoices the 7-bit      *)
(* format rounds the way float64 does: the same pairs give exactly 1.0 and   *)
(* 0.0, the same pairs miss them by one unit in the last place.              *)

SigBits == 7
FracBits == SigBits + 2
FloatOne == 2^FracBits

\* the largest power of two that is at most x, for x >= 1
Exp2(x) == CHOOSE q \in {2^k : k \in 0..(2 * FracBits + 4)} : q <= x /\ x < 2 * q

\* the spacing of the representable numbers around x
Quantum(x) == IF x < 1 THEN 1 ELSE Max(1, Exp2(x) \div 2^(SigBits - 1))

\* the representable number nearest to num / den
RoundNearest(num, den) ==
    LET f == num \div den
        q == Quantum(f)
        lo == (f \div q) * q
        twice_rest == 2 * (num - lo * den)
    IN  IF twice_rest < q * den THEN lo
        ELSE IF twice_rest > q * den THEN lo + q
        ELSE IF (lo \div q) % 2 = 0 THEN lo ELSE lo + q

FloatMul(a, b) == RoundNearest(a * b, FloatOne)

FloatDiv(a, b) == RoundNearest(a * FloatOne, b)

\* np.linalg.norm of a vector whose squared length is x
FloatSqrt(x) ==
    LET t == x * FloatOne
        f == CHOOSE r \in 0..(4 * FloatOne) : r * r <= t /\ (r + 1) * (r + 1) > t
        q == Quantum(f)
        lo == (f \div q) * q
    IN  IF (2 * lo + q) * (2 * lo + q) > 4 * t THEN lo ELSE lo + q

\* calculate_similarity on vectors of small integers, which np.array and
\* np.dot represent and multiply exactly
calculate_similarity_float(embedding1, embedding2) ==
    IF embedding1 = NoEmbedding \/ embedding2 = NoEmbedding
          \/ Len(embedding1) # Len(embedding2)
    THEN 0
    ELSE LET dot_product == Dot(embedding1, embedding2) * FloatOne
             magnitude1 == FloatSqrt(Dot(embedding1, embedding1) * FloatOne)
             magnitude2 == FloatSqrt(Dot(embedding2, embedding2) * FloatOne)
         IN  IF magnitude1 = 0 \/ magnitude2 = 0
             THEN 0
             ELSE LET similarity ==
                          Sign(dot_product)
                          * FloatDiv(Sign(dot_product) * dot_product,
                                     FloatMul(magnitude1, magnitude2))
                      plus_one == RoundNearest(similarity + FloatOne, 1)
                  IN  Max(0, Min(FloatOne, RoundNearest(plus_one, 2)))

---------------------------------------------------------------------------
(* Category bonus *)

RECURSIVE BonusSum(_, _)
BonusSum(keywords, job_text) ==
    IF keywords = <<>> THEN 0
    ELSE (IF Contains(job_text, LowerStr(Head(keywords))) THEN BonusStep ELSE 0)
         + BonusSum(Tail(keywords), job_text)

JobText(job_title, analysis_result) ==
    LowerStr(job_title \o <<" ">> \o analysis_result)

calculate_category_match_bonus(job_title, analysis_result, keywords) ==
    Min(BonusSum(keywords, JobText(job_title, analysis_result)), BonusCap)

---------------------------------------------------------------------------
(* Fixed data: users, jobs (SearchedJob), categories (CareerCategory) *)

Workers == {1, 2}
Users == {1, 2}

\* SearchedJob rows; recommendations_analysis is recommendations.get('analysis', '')
Jobs ==
    [j \in 1..4 |->
        CASE j = 1 -> [user |-> 1, job_title |-> <<"C","T","O">>,
                       analysis_result |-> <<"i","t">>, recommendations_analysis |-> <<>>]
          [] j = 2 -> [user |-> 1, job_title |-> <<"I","T">>,
                       analysis_result |-> <<"t","o">>, recommendations_analysis |-> <<>>]
          [] j = 3 -> [user |-> 2, job_title |-> <<"C","T","O">>,
                       analysis_result |-> <<"i","t">>, recommendations_analysis |-> <<>>]
          [] OTHER -> [user |-> 1, job_title |-> <<"I","T">>,
                       analysis_result |-> <<>>, recommendations_analysis |-> <<>>]]

JobIds == DOMAIN Jobs

\* CareerCategory.keywords
Keywords ==
    [c \in 1..3 |->
        CASE c = 1 -> << <<"c","t","o">> >>
          [] c = 2 -> << <<"c">>, <<"C","T">>, <<"o">>, <<"i","t">> >>
          [] OTHER -> << >>]

\* combined_text = f"Question: {insight.question}\nAnswer: {insight.content}"
CombinedText(question, content) == <<"Q">> \o question \o <<"A">> \o content

\* the vector the embedding provider computes for a text
ProviderVector(text) ==
    CASE text = <<"i","t">> -> <<1, 0>>
      [] text = <<"t","o">> -> <<0, 1>>
      [] text = <<"Q","q","A","a">> -> <<1, 0>>
      [] text = <<"Q","q","A","c">> -> <<0, 1>>
      [] text = <<"Q","q","A","z">> -> <<0, 0>>
      [] text = <<"Q","q","A","n">> -> <<2, 1>>
      [] text = <<"Q","r","A","a">> -> <<1, 2>>
      [] text = <<"Q","r","A","n">> -> <<2, 3>>
      [] OTHER -> <<1, 1>>

\* EmbeddingService.generate_embedding: None for blank text or a failed API call
generate_embedding(text, api_ok) ==
    IF Blank(text) THEN NoEmbedding
    ELSE IF api_ok THEN ProviderVector(text) ELSE NoEmbedding

\* PersonalInsight rows after data entry; insight 7 was created while the
\* embedding provider was failing, insight 8 belongs to the other user
InitialInsights ==
    [i \in 1..8 |->
        [question |-> <<"q">>, is_active |-> TRUE]
        @@
        CASE i = 1 -> [user |-> 1, category |-> 1, content |-> <<"a">>, embedding |-> <<1, 0>>]
          [] i = 2 -> [user |-> 1, category |-> 1, content |-> <<"b">>, embedding |-> <<1, 1>>]
          [] i = 3 -> [user |-> 1, category |-> 2, content |-> <<"c">>, embedding |-> <<0, 1>>]
          [] i = 4 -> [user |-> 1, category |-> 2, content |-> <<"z">>, embedding |-> <<0, 0>>]
          [] i = 5 -> [user |-> 1, category |-> 2, content |-> <<"a">>, embedding |-> <<1, 0>>]
          [] i = 6 -> [user |-> 1, category |-> 1, content |-> <<"b">>, embedding |-> <<1, 1>>]
          [] i = 7 -> [user |-> 1, category |-> 2, content |-> <<"a">>, embedding |-> NoEmbedding]
          [] OTHER -> [user |-> 2, category |-> 1, content |-> <<"a">>, embedding |-> <<1, 0>>]]

NarrativeTypes == {"cover_letter", "summary"}

---------------------------------------------------------------------------
(* Store helpers *)

\* rows another session sees (READ COMMITTED): committed ones, including those
\* a running transaction has deleted but not yet committed
Committed == {r \in matches : r.ins = 0}

JobRows(S, j) == {r \in S : r.job = j}

Ids(S) == {r.id : r \in S}

Proj(r) == [insight |-> r.insight, relevance_score |-> r.relevance_score,
            category_match_bonus |-> r.category_match_bonus, final_score |-> r.final_score]

SetMax(S) == CHOOSE x \in S : \A y \in S : y <= x

\* PersonalInsight.Meta.ordering = ['-created_at']: newest (largest id) first
RECURSIVE InsightOrder(_)
InsightOrder(S) ==
    IF S = {} THEN <<>>
    ELSE <<SetMax(S)>> \o InsightOrder(S \ {SetMax(S)})

SeqToSet(s) == {s[i] : i \in 1..Len(s)}

---------------------------------------------------------------------------
(* Handler-local state and responses *)

NoH ==
    [op |-> "none", user |-> 0, job |-> 0, top_k |-> 0, min_similarity |-> 0,
     categories |-> <<>>, emb |-> NoEmbedding, table |-> <<>>, queried |-> <<>>,
     todo |-> <<>>, created |-> <<>>, snap |-> {}, failed |-> FALSE, prior |-> {},
     sel |-> <<>>, ntype |-> "none", explicit |-> <<>>]

NoStored == [rows |-> {}, n |-> 0]

NoResp ==
    [op |-> "none", status |-> 0, error |-> "", job |-> 0, user |-> 0,
     top_k |-> 0, min_similarity |-> 0,
     matches |-> <<>>, matches_found |-> 0, top_matches |-> 0,
     computed |-> <<>>, committed |-> FALSE, rolled_back |-> FALSE, prior |-> {},
     emb_failed |-> FALSE, repeat |-> FALSE, prev_matches |-> <<>>,
     prev_stored |-> NoStored, stored |-> NoStored,
     ntype |-> "none", explicit |-> <<>>, insights_used |-> <<>>,
     seen |-> {}, during |-> FALSE, narrative |-> 0, replaced |-> {}]

NoRun ==
    [valid |-> FALSE, top_k |-> 0, min_similarity |-> 0, categories |-> <<>>,
     emb |-> NoEmbedding, table |-> <<>>, matches |-> <<>>, stored |-> NoStored]

\* the handler returns: the response goes out and the worker is free again
Return(w, r) ==
    /\ resp' = [resp EXCEPT ![w] = r]
    /\ pc' = [pc EXCEPT ![w] = "idle"]
    /\ h' = [h EXCEPT ![w] = NoH]

Stored(S, j) ==
    [rows |-> {Proj(r) : r \in JobRows(S, j)}, n |-> Cardinality(JobRows(S, j))]

---------------------------------------------------------------------------
(* match_insights_to_job *)

\* InsightMatchingRequestSerializer
ValidMatchingRequest(top_k, min_similarity) ==
    /\ top_k >= 1 /\ top_k <= MaxTopK
    /\ min_similarity >= 0 /\ min_similarity <= One

job_description(job) ==
    IF job.analysis_result # <<>> THEN job.analysis_result
    ELSE job.recommendations_analysis

\* a variant that never notices a missing embedding
EmbeddingNeverMissing(e) == FALSE

\* `if not job_embedding`
EmbeddingMissing(e) == e = NoEmbedding

\* PersonalInsight.objects.filter(user, is_active=True, embedding__isnull=False)
\* and, when category ids are given, category_id__in
EligibleInsights(u, categories) ==
    {i \in DOMAIN insights :
        /\ insights[i].user = u
        /\ insights[i].is_active
        /\ insights[i].embedding # NoEmbedding
        /\ (categories # <<>> => insights[i].category \in SeqToSet(categories))}

\* the user's insights as they are when the handler reads them
UserInsights(u) ==
    [i \in {x \in DOMAIN insights : insights[x].user = u} |-> insights[i]]

\* list(insights_query): the rows as they are when the query runs
InsightList(S) ==
    LET order == InsightOrder(S)
    IN  [k \in 1..Len(order) |->
            [id |-> order[k], category |-> insights[order[k]].category,
             embedding |-> insights[order[k]].embedding]]

\* a variant without the threshold test
AlwaysPasses(similarity, min_similarity) == TRUE

\* `if similarity >= min_similarity`
PassesThreshold(similarity, min_similarity) == similarity >= min_similarity

\* a variant that caps the sum at 1.0
CappedFinalScore(similarity, category_bonus) == Min(One, similarity + category_bonus)

FinalScore(similarity, category_bonus) == similarity + category_bonus

\* a variant without the atomic block: every insert is committed at once
AutocommitInsert(w) == 0

\* a row created inside transaction.atomic() stays invisible to other sessions
\* until the block commits
PendingInsert(w) == w

\* a variant without the unique constraint
NoUniqueConstraint(M, w, j, i) == FALSE

\* unique_together = ['searched_job', 'matched_insight'], as worker w sees table M
UniqueViolation(M, w, j, i) ==
    \E r \in M : r.ins \in {0, w} /\ r.del # w /\ r.job = j /\ r.insight = i

\* the unique index makes an insert wait for a running transaction that holds
\* a row with the same key
KeyLocked(w, j, i) ==
    \E r \in matches : r.job = j /\ r.insight = i
                       /\ (r.ins \notin {0, w} \/ r.del \notin {0, w})

FreeId(M) ==
    LET used == Ids(M) \cup UNION {h[w].snap : w \in Workers}
    IN  CHOOSE n \in 1..(Cardinality(used) + 1) :
            n \notin used /\ \A m \in 1..(n - 1) : m \in used

\* matches_created.sort(key=final_score, reverse=True): stable
RECURSIVE InsertDesc(_, _)
InsertDesc(x, s) ==
    IF s = <<>> THEN <<x>>
    ELSE IF Head(s).final_score >= x.final_score
         THEN <<Head(s)>> \o InsertDesc(x, Tail(s))
         ELSE <<x>> \o s

RECURSIVE SortByFinalDesc(_)
SortByFinalDesc(s) ==
    IF s = <<>> THEN <<>>
    ELSE InsertDesc(s[Len(s)], SortByFinalDesc(SubSeq(s, 1, Len(s) - 1)))

\* a variant that returns the whole sorted list
WholeList(s, k) == s

\* matches_created[:top_k]
Truncate(s, k) == SubSeq(s, 1, Min(k, Len(s)))

\* a variant that leaves the old rows in place
DeleteNothing(M, w, target) == M

\* JobInsightMatch.objects.filter(searched_job=job).delete() inside the block
DeleteRows(M, w, target) ==
    (M \ target) \cup {[r EXCEPT !.del = w] : r \in target}

\* one iteration of `for insight in insights` on table M with locals hw;
\* the result is the table and the locals after it
InsertIteration(M, hw, w, db_ok) ==
    LET insight == Head(hw.todo)
        j == hw.job
        similarity == calculate_similarity(hw.emb, insight.embedding)
        category_bonus ==
            calculate_category_match_bonus(Jobs[j].job_title, Jobs[j].analysis_result,
                                           career_categories[insight.category])
        row == [id |-> FreeId(M), job |-> j, insight |-> insight.id,
                relevance_score |-> similarity,
                category_match_bonus |-> category_bonus,
                final_score |-> FinalScore(similarity, category_bonus),
                used |-> FALSE, ins |-> PendingInsert(w), del |-> 0]
        rest == [hw EXCEPT !.todo = Tail(hw.todo)]
    IN  IF ~PassesThreshold(similarity, hw.min_similarity) \/ hw.failed
        THEN \* below the threshold, or the transaction is already broken and
             \* every query raises: the except clause logs and continues
             [m |-> M, hw |-> rest]
        ELSE IF ~db_ok \/ UniqueViolation(M, w, j, insight.id)
        THEN \* create() raises; the transaction is marked for rollback
             [m |-> M, hw |-> [rest EXCEPT !.failed = TRUE]]
        ELSE [m |-> M \cup {row},
              hw |-> [rest EXCEPT !.created = Append(hw.created, row)]]

\* leaving the atomic block
Commit(M, w) ==
    {IF r.ins = w THEN [r EXCEPT !.ins = 0] ELSE r : r \in {x \in M : x.del # w}}

Rollback(M, w) ==
    {IF r.del = w THEN [r EXCEPT !.del = 0] ELSE r : r \in {x \in M : x.ins # w}}

LeaveAtomic(M, hw, w) == IF hw.failed THEN Rollback(M, w) ELSE Commit(M, w)

\* the whole loop, for a worker that is not interleaved with another
RECURSIVE InsertAll(_, _)
InsertAll(st, w) ==
    IF st.hw.todo = <<>> THEN st
    ELSE InsertAll(InsertIteration(st.m, st.hw, w, TRUE), w)

RankedTop(hw) ==
    LET top_matches == Truncate(SortByFinalDesc(hw.created), hw.top_k)
    IN  [k \in 1..Len(top_matches) |-> Proj(top_matches[k])]

Computed(hw) == [k \in 1..Len(hw.created) |-> Proj(hw.created[k])]

\* a variant that counts the returned entries
ReturnedCount(hw) == Min(hw.top_k, Len(hw.created))

\* 'matches_found': len(matches_created)
MatchesFound(hw) == Len(hw.created)

SameInputs(run, hw) ==
    /\ run.valid
    /\ run.top_k = hw.top_k
    /\ run.min_similarity = hw.min_similarity
    /\ run.categories = hw.categories
    /\ run.emb = hw.emb
    /\ run.table = hw.table

\* the HTTP 200 answer of a run, with the history the properties refer to
MatchDone(w, hw, newMatches, ranked) ==
    \E j \in {hw.job}, list \in {ranked} :
    \E after \in {Stored({r \in newMatches : r.ins = 0}, j)} :
        /\ Return(w, [NoResp EXCEPT
                  !.op = "match", !.status = 200, !.job = j, !.user = hw.user,
                  !.top_k = hw.top_k, !.min_similarity = hw.min_similarity,
                  !.matches = list, !.matches_found = MatchesFound(hw),
                  !.top_matches = Len(list), !.computed = Computed(hw),
                  !.committed = (hw.queried # <<>> /\ ~hw.failed),
                  !.rolled_back = hw.failed,
                  !.prior = hw.prior, !.emb_failed = (hw.emb = NoEmbedding),
                  !.repeat = SameInputs(lastRun[j], hw),
                  !.prev_matches = lastRun[j].matches,
                  !.prev_stored = lastRun[j].stored,
                  !.stored = after])
        /\ lastRun' = [lastRun EXCEPT ![j] =
                  [valid |-> TRUE, top_k |-> hw.top_k,
                   min_similarity |-> hw.min_similarity,
                   categories |-> hw.categories, emb |-> hw.emb,
                   table |-> hw.table, matches |-> list, stored |-> after]]

\* the handler up to the atomic block: what it answers if it returns before
\* the block (status 0: it goes on), and its locals
MatchPrologue(u, job_id, top_k, min_similarity, categories, api_ok) ==
    IF job_id \notin JobIds \/ Jobs[job_id].user # u
    THEN \* get_object_or_404 raises Http404 inside the try block
         [status |-> 500, error |-> "Failed to match insights to job", hw |-> NoH]
    ELSE IF ~ValidMatchingRequest(top_k, min_similarity)
    THEN [status |-> 400, error |-> "invalid", hw |-> NoH]
    ELSE IF job_description(Jobs[job_id]) = <<>>
    THEN [status |-> 400, error |-> "No job description available for matching",
          hw |-> NoH]
    ELSE LET job_embedding == generate_embedding(job_description(Jobs[job_id]), api_ok)
             queried == InsightList(EligibleInsights(u, categories))
             hw == [NoH EXCEPT !.op = "match", !.user = u, !.job = job_id,
                               !.top_k = top_k, !.min_similarity = min_similarity,
                               !.categories = categories, !.emb = job_embedding,
                               !.table = UserInsights(u),
                               !.queried = queried, !.todo = queried,
                               !.prior = Ids(JobRows(Committed, job_id))]
         IN  IF EmbeddingMissing(job_embedding)
             THEN [status |-> 500, error |-> "Failed to generate job embedding",
                   hw |-> hw]
             ELSE IF queried = <<>>
             THEN [status |-> 200, error |-> "No insights available for matching",
                   hw |-> hw]
             ELSE [status |-> 0, error |-> "", hw |-> hw]

MatchEarlyReturn(w, job_id, u, p) ==
    IF p.status = 200
    THEN MatchDone(w, p.hw, matches, <<>>)
    ELSE /\ Return(w, [NoResp EXCEPT !.op = "match", !.job = job_id, !.user = u,
                           !.status = p.status, !.error = p.error,
                           !.prior = p.hw.prior,
                           !.emb_failed = (p.hw.op = "match" /\ p.hw.emb = NoEmbedding)])
         /\ UNCHANGED lastRun

\* the whole handler, served without interleaving
\* (\E over a one-element set binds a value that is computed once)
match_insights_to_job(w, u, job_id, top_k, min_similarity, categories, api_ok) ==
    /\ pc[w] = "idle"
    /\ reqs < MaxReqs
    /\ reqs' = reqs + 1
    /\ UNCHANGED <<career_categories, insights, narratives, usages, b_in, b_out, v_in, v_out>>
    /\ \E p \in {MatchPrologue(u, job_id, top_k, min_similarity, categories, api_ok)} :
           IF p.status # 0
           THEN /\ MatchEarlyReturn(w, job_id, u, p)
                /\ matches' = matches
           ELSE \E done \in {InsertAll([m |-> DeleteRows(matches, w,
                                                        JobRows(Committed, job_id)),
                                        hw |-> p.hw], w)} :
                \E newMatches \in {LeaveAtomic(done.m, done.hw, w)} :
                    /\ matches' = newMatches
                    /\ MatchDone(w, done.hw, newMatches, RankedTop(done.hw))

\* the same handler in steps, for workers that interleave: up to the atomic block
match_begin(w, u, job_id, top_k, min_similarity, categories, api_ok) ==
    /\ pc[w] = "idle"
    /\ reqs < MaxReqs
    /\ reqs' = reqs + 1
    /\ UNCHANGED <<career_categories, insights, matches, narratives, usages, b_in, b_out, v_in, v_out>>
    /\ \E p \in {MatchPrologue(u, job_id, top_k, min_similarity, categories, api_ok)} :
           IF p.status # 0
           THEN MatchEarlyReturn(w, job_id, u, p)
           ELSE /\ pc' = [pc EXCEPT ![w] = "m_delete"]
                /\ h' = [h EXCEPT ![w] = p.hw]
                /\ resp' = [resp EXCEPT ![w] = NoResp]
                /\ UNCHANGED lastRun

\* entering the atomic block and starting the delete statement
match_delete(w) ==
    /\ pc[w] = "m_delete"
    /\ LET target == JobRows(Committed, h[w].job)
       IN  IF \A r \in target : r.del \in {0, w}
           THEN /\ matches' = DeleteRows(matches, w, target)
                /\ pc' = [pc EXCEPT ![w] = "m_insert"]
                /\ h' = [h EXCEPT ![w].prior = Ids(target)]
           ELSE \* a row is locked by a running transaction: the statement waits
                /\ matches' = matches
                /\ pc' = [pc EXCEPT ![w] = "m_wait"]
                /\ h' = [h EXCEPT ![w].prior = Ids(target), ![w].snap = Ids(target)]
    /\ UNCHANGED <<career_categories, insights, narratives, usages, resp, lastRun, reqs, b_in, b_out, v_in, v_out>>

\* the lock holder has finished: the statement deletes what is left of the rows
\* it saw when it started
match_delete_resume(w) ==
    /\ pc[w] = "m_wait"
    /\ LET target == {r \in Committed : r.id \in h[w].snap}
       IN  /\ \A r \in target : r.del \in {0, w}
           /\ matches' = DeleteRows(matches, w, target)
    /\ pc' = [pc EXCEPT ![w] = "m_insert"]
    /\ h' = [h EXCEPT ![w].snap = {}]
    /\ UNCHANGED <<career_categories, insights, narratives, usages, resp, lastRun, reqs, b_in, b_out, v_in, v_out>>

\* one iteration of the loop
match_insert(w, db_ok) ==
    /\ pc[w] = "m_insert"
    /\ h[w].todo # <<>>
    /\ LET insight == Head(h[w].todo)
           attempts == PassesThreshold(
                           calculate_similarity(h[w].emb, insight.embedding),
                           h[w].min_similarity) /\ ~h[w].failed
       IN  /\ attempts => ~KeyLocked(w, h[w].job, insight.id)
           /\ \E it \in {InsertIteration(matches, h[w], w, db_ok)} :
                  /\ matches' = it.m
                  /\ h' = [h EXCEPT ![w] = it.hw]
    /\ UNCHANGED <<career_categories, insights, narratives, usages, pc, resp, lastRun, reqs, b_in, b_out, v_in, v_out>>

\* leaving the atomic block, sorting, answering
match_commit(w) ==
    /\ pc[w] = "m_insert"
    /\ h[w].todo = <<>>
    /\ \E newMatches \in {LeaveAtomic(matches, h[w], w)} :
           /\ matches' = newMatches
           /\ MatchDone(w, h[w], newMatches, RankedTop(h[w]))
    /\ UNCHANGED <<career_categories, insights, narratives, usages, reqs, b_in, b_out, v_in, v_out>>

---------------------------------------------------------------------------
(* EmbeddingService.find_most_similar *)

\* `for i, candidate in enumerate(candidate_embeddings)` with
\* `if candidate is not None`: index (zero-based) and similarity of the
\* candidates that have a vector
RECURSIVE Similarities(_, _, _)
Similarities(query_embedding, candidate_embeddings, n) ==
    IF n = 0 THEN <<>>
    ELSE LET before == Similarities(query_embedding, candidate_embeddings, n - 1)
         IN  IF candidate_embeddings[n] # NoEmbedding
             THEN Append(before,
                         [index |-> n - 1,
                          similarity |-> calculate_similarity(query_embedding,
                                                              candidate_embeddings[n])])
             ELSE before

RECURSIVE InsertBySimilarity(_, _)
InsertBySimilarity(x, s) ==
    IF s = <<>> THEN <<x>>
    ELSE IF Head(s).similarity >= x.similarity
         THEN <<Head(s)>> \o InsertBySimilarity(x, Tail(s))
         ELSE <<x>> \o s

\* a variant that leaves the list as it was built
KeepOrder(s) == s

\* similarities.sort(key=similarity, reverse=True): stable
RECURSIVE SortBySimilarityDesc(_)
SortBySimilarityDesc(s) ==
    IF s = <<>> THEN <<>>
    ELSE InsertBySimilarity(s[Len(s)], SortBySimilarityDesc(SubSeq(s, 1, Len(s) - 1)))

find_most_similar(query_embedding, candidate_embeddings, top_k) ==
    Truncate(SortBySimilarityDesc(Similarities(query_embedding, candidate_embeddings,
                                               Len(candidate_embeddings))),
             top_k)

---------------------------------------------------------------------------
(* generate_narrative *)

\* a variant that reads the rows in no particular order
AnyRowFirst(S) == S

\* .order_by('-final_score'): the rows that may come first (the store breaks
\* ties as it likes)
FirstByFinalDesc(S) == {x \in S : \A y \in S : y.final_score <= x.final_score}

\* JobInsightMatch rows .order_by('-final_score')[:n]: every order the query
\* may return
RECURSIVE TopSequences(_, _)
TopSequences(S, n) ==
    IF n = 0 \/ S = {} THEN {<<>>}
    ELSE UNION {{<<r>> \o t : t \in TopSequences(S \ {r}, n - 1)} :
                r \in FirstByFinalDesc(S)}

\* a variant without the owner filter
AnyOwnerInsights(u, ids) ==
    InsightOrder({i \in DOMAIN insights : i \in SeqToSet(ids) /\ insights[i].is_active})

\* PersonalInsight.objects.filter(id__in=use_insight_ids, user, is_active=True)
ExplicitInsights(u, ids) ==
    InsightOrder({i \in DOMAIN insights :
                     /\ i \in SeqToSet(ids)
                     /\ insights[i].user = u
                     /\ insights[i].is_active})

\* a variant without the floor of 0.1
UnflooredWeight(i) == One - i * 20

\* usage_weight=max(0.1, 1.0 - (i * 0.2)), i zero-based
usage_weight(i) == Max(10, One - i * 20)

generate_narrative(w, u, job_id, ntype, ids) ==
    /\ pc[w] = "idle"
    /\ reqs < MaxReqs
    /\ reqs' = reqs + 1
    /\ UNCHANGED <<career_categories, insights, matches, narratives, usages, lastRun, b_in, b_out, v_in, v_out>>
    /\ LET base == [NoResp EXCEPT !.op = "narrative", !.job = job_id, !.user = u,
                                  !.ntype = ntype, !.explicit = ids]
       IN
       IF job_id \notin JobIds \/ Jobs[job_id].user # u
       THEN Return(w, [base EXCEPT !.status = 500,
                                   !.error = "Failed to generate narrative"])
       ELSE IF ntype \notin NarrativeTypes
       THEN Return(w, [base EXCEPT !.status = 400, !.error = "invalid"])
       ELSE \E sel \in (IF ids # <<>>
                        THEN {ExplicitInsights(u, ids)}
                        ELSE {[k \in 1..Len(t) |-> t[k].insight] :
                                 t \in TopSequences(JobRows(Committed, job_id), DefaultCount)}) :
            IF sel = <<>>
            THEN Return(w, [base EXCEPT !.status = 400,
                      !.error = "No insights available for narrative generation"])
            ELSE /\ pc' = [pc EXCEPT ![w] = "n_gen"]
                 /\ h' = [h EXCEPT ![w] = [NoH EXCEPT !.op = "narrative", !.user = u,
                              !.job = job_id, !.ntype = ntype, !.explicit = ids,
                              !.sel = sel]]
                 /\ resp' = [resp EXCEPT ![w] = NoResp]

\* a variant in which deleting a narrative leaves its usage rows behind
KeepUsages(U, gone) == U

\* NarrativeInsightUsage.narrative is on_delete=CASCADE: the usage rows of the
\* deleted narratives go with them
CascadeUsages(U, gone) == {x \in U : x.narrative \notin gone}

\* the primary key of a new GeneratedNarrative row: larger than every key in use
NewNarrativeId(N, U) ==
    SetMax({x.id : x \in N} \cup {x.narrative : x \in U} \cup {0}) + 1

\* a variant that forgets the update
MarkNothing(M, j, done) == M

\* JobInsightMatch.objects.filter(searched_job=job, matched_insight=insight)
\*     .update(is_used_in_narrative=True), for the insights in done
MarkUsed(M, j, done) ==
    {IF r.job = j /\ r.insight \in done /\ r.ins = 0
     THEN [r EXCEPT !.used = TRUE] ELSE r : r \in M}

\* the statements of the atomic block: delete, create, then for each insight a
\* usage row and an update
NarrativeStatements(hw) == 2 + 2 * Len(hw.sel)

\* the tables after the first n statements of the block
PersistSteps(db, hw, n) ==
    LET j == hw.job
        gone == {x.id : x \in {y \in db.narratives :
                                  y.job = j /\ y.ntype = hw.ntype}}
        nid == NewNarrativeId(db.narratives, db.usages)
        linked == {k \in 1..Len(hw.sel) : n >= 2 * k + 1}
        marked == {hw.sel[k] : k \in {x \in 1..Len(hw.sel) : n >= 2 * x + 2}}
    IN  [narratives |->
            {x \in db.narratives : n = 0 \/ x.id \notin gone}
            \cup (IF n >= 2
                  THEN {[id |-> nid, user |-> hw.user, job |-> j, ntype |-> hw.ntype]}
                  ELSE {}),
         usages |->
            (IF n >= 1 THEN CascadeUsages(db.usages, gone) ELSE db.usages)
            \cup {[narrative |-> nid, insight |-> hw.sel[k],
                   usage_weight |-> usage_weight(k - 1)] : k \in linked},
         matches |-> MarkUsed(db.matches, j, marked)]

\* a variant without the atomic block: what was written stays
KeepPartial(before, partial) == partial

\* leaving transaction.atomic() with an exception
RollbackNarrative(before, partial) == before

\* _generate_narrative_content returns, then the atomic block that replaces the
\* narrative, links the insights and marks the job's Match rows; statement
\* number fail_at of the block raises (0: none does)
generate_narrative_finish(w, gen_ok, fail_at) ==
    /\ pc[w] = "n_gen"
    /\ LET j == h[w].job
           sel == h[w].sel
           before == [narratives |-> narratives, usages |-> usages,
                      matches |-> matches]
           base == [NoResp EXCEPT !.op = "narrative", !.job = j, !.user = h[w].user,
                                  !.ntype = h[w].ntype, !.explicit = h[w].explicit,
                                  !.replaced = {x.id : x \in {y \in narratives :
                                                   y.job = j /\ y.ntype = h[w].ntype}}]
           locked == {r \in JobRows(Committed, j) : r.insight \in SeqToSet(sel)}
       IN
       IF ~gen_ok
       THEN /\ Return(w, [base EXCEPT !.status = 500,
                              !.error = "Failed to generate narrative content"])
            /\ UNCHANGED <<matches, narratives, usages>>
       ELSE /\ \A r \in locked : r.del = 0
            /\ \E after \in
                  {IF fail_at \in 1..NarrativeStatements(h[w])
                   THEN RollbackNarrative(before, PersistSteps(before, h[w], fail_at - 1))
                   ELSE PersistSteps(before, h[w], NarrativeStatements(h[w]))} :
                  /\ narratives' = after.narratives
                  /\ usages' = after.usages
                  /\ matches' = after.matches
            /\ IF fail_at \in 1..NarrativeStatements(h[w])
               THEN Return(w, [base EXCEPT !.status = 500,
                                   !.error = "Failed to generate narrative"])
               ELSE Return(w, [base EXCEPT !.status = 201, !.insights_used = sel,
                                   !.narrative = NewNarrativeId(narratives, usages)])
    /\ UNCHANGED <<career_categories, insights, lastRun, reqs, b_in, b_out, v_in, v_out>>

---------------------------------------------------------------------------
(* Insight update and the job view *)

\* _generate_embedding_for_insight: the row after the call; a failed call
\* leaves the row as it is
generate_embedding_for_insight(insight, api_ok) ==
    LET embedding == generate_embedding(CombinedText(insight.question, insight.content),
                                        api_ok)
    IN  IF embedding # NoEmbedding
        THEN [insight EXCEPT !.embedding = embedding]
        ELSE insight

\* PersonalInsightRetrieveUpdateDeleteView.perform_update with a request that
\* sets is_active, question and content
perform_update(w, u, i, is_active, question, content, api_ok) ==
    /\ pc[w] = "idle"
    /\ reqs < MaxReqs
    /\ reqs' = reqs + 1
    /\ IF i \in DOMAIN insights /\ insights[i].user = u
       THEN LET old_content == insights[i].content
                saved == [insights[i] EXCEPT !.is_active = is_active,
                                             !.question = question,
                                             !.content = content]
            IN  /\ insights' =
                       [insights EXCEPT ![i] =
                           IF saved.content # old_content
                           THEN generate_embedding_for_insight(saved, api_ok)
                           ELSE saved]
                /\ Return(w, [NoResp EXCEPT !.op = "update", !.status = 200, !.user = u])
       ELSE /\ insights' = insights
            /\ Return(w, [NoResp EXCEPT !.op = "update", !.status = 404, !.user = u])
    /\ UNCHANGED <<career_categories, matches, narratives, usages, lastRun, b_in, b_out, v_in, v_out>>

\* a running recomputation of job j by a worker other than w, if there is one
Recomputing(w, j) ==
    {x \in Workers \ {w} : pc[x] \in {"m_wait", "m_insert"} /\ h[x].job = j}

\* job_with_insights: the job with its insight_matches, as another session sees them
job_with_insights(w, u, job_id) ==
    /\ pc[w] = "idle"
    /\ reqs < MaxReqs
    /\ reqs' = reqs + 1
    /\ IF job_id \notin JobIds \/ Jobs[job_id].user # u
       THEN Return(w, [NoResp EXCEPT !.op = "read", !.status = 500, !.job = job_id,
                                     !.user = u,
                                     !.error = "Failed to retrieve job details"])
       ELSE Return(w, [NoResp EXCEPT !.op = "read", !.status = 200, !.job = job_id,
                          !.user = u,
                          !.seen = Ids(JobRows(Committed, job_id)),
                          !.during = Recomputing(w, job_id) # {},
                          !.prior = UNION {h[x].prior : x \in Recomputing(w, job_id)}])
    /\ UNCHANGED <<career_categories, insights, matches, narratives, usages, lastRun, b_in, b_out, v_in, v_out>>

---------------------------------------------------------------------------
(* Career category views *)

\* CareerCategoryRetrieveUpdateDeleteView, PUT/PATCH with a keyword list; the
\* view asks for an authenticated user and nothing more
category_update(w, u, c, keywords) ==
    /\ pc[w] = "idle"
    /\ reqs < MaxReqs
    /\ reqs' = reqs + 1
    /\ IF c \in DOMAIN career_categories
       THEN /\ career_categories' = [career_categories EXCEPT ![c] = keywords]
            /\ Return(w, [NoResp EXCEPT !.op = "category_update", !.status = 200,
                                        !.user = u])
       ELSE /\ career_categories' = career_categories
            /\ Return(w, [NoResp EXCEPT !.op = "category_update", !.status = 404,
                                        !.user = u])
    /\ UNCHANGED <<insights, matches, narratives, usages, lastRun, b_in, b_out, v_in, v_out>>

\* CareerCategoryRetrieveUpdateDeleteView, DELETE: PersonalInsight.category,
\* JobInsightMatch.matched_insight and NarrativeInsightUsage.insight are
\* on_delete=CASCADE
category_destroy(w, u, c) ==
    /\ pc[w] = "idle"
    /\ reqs < MaxReqs
    /\ reqs' = reqs + 1
    /\ IF c \in DOMAIN career_categories
       THEN LET gone == {i \in DOMAIN insights : insights[i].category = c}
            IN  /\ career_categories' =
                       [x \in DOMAIN career_categories \ {c} |-> career_categories[x]]
                /\ insights' = [i \in DOMAIN insights \ gone |-> insights[i]]
                /\ matches' = {r \in matches : r.insight \notin gone}
                /\ usages' = {x \in usages : x.insight \notin gone}
                /\ Return(w, [NoResp EXCEPT !.op = "category_destroy", !.status = 204,
                                            !.user = u])
       ELSE /\ UNCHANGED <<career_categories, insights, matches, usages>>
            /\ Return(w, [NoResp EXCEPT !.op = "category_destroy", !.status = 404,
                                        !.user = u])
    /\ UNCHANGED <<narratives, lastRun, b_in, b_out, v_in, v_out>>

---------------------------------------------------------------------------
(* The category bonus as a function of its inputs *)

KeywordChoices == {<<"c">>, <<"C">>, <<"t","o">>, <<"x">>}

RECURSIVE SeqsUpTo(_, _)
SeqsUpTo(S, n) ==
    IF n = 0 THEN {<<>>}
    ELSE SeqsUpTo(S, n - 1)
         \cup {Append(t, x) : t \in {y \in SeqsUpTo(S, n - 1) : Len(y) = n - 1}, x \in S}

TitleChoices == {<<"C","T","O">>, <<"c","c">>, <<>>}
AnalysisChoices == {<<"t","o">>, <<"x","c">>}

NoBonusIn == [job_title |-> <<>>, analysis_result |-> <<>>, keywords |-> <<>>]

bonus_call ==
    /\ b_out = -1
    /\ b_out' = calculate_category_match_bonus(b_in.job_title, b_in.analysis_result,
                                               b_in.keywords)
    /\ UNCHANGED <<career_categories, insights, matches, narratives, usages, pc, h, resp, lastRun, reqs, b_in, v_in, v_out>>

---------------------------------------------------------------------------
(* Specifications *)

InitStore ==
    /\ insights = InitialInsights
    /\ matches = {}
    /\ narratives = {}
    /\ usages = {}
    /\ career_categories = Keywords
    /\ pc = [w \in Workers |-> "idle"]
    /\ h = [w \in Workers |-> NoH]
    /\ resp = [w \in Workers |-> NoResp]
    /\ lastRun = [j \in JobIds |-> NoRun]
    /\ reqs = 0

\* no EmbeddingService call under observation
NoVectorCall == [done |-> FALSE]

Init ==
    /\ InitStore
    /\ b_in = NoBonusIn
    /\ b_out = -1
    /\ v_in = NoVectorCall
    /\ v_out = NoVectorCall

\* (user, job id) of a request on the user's own job, and of a request that
\* names another user's job, a job without description, a job that does not exist
OwnJobChoices == {<<1, 1>>, <<2, 3>>}
OtherJobChoices == {<<1, 3>>, <<1, 4>>, <<1, 9>>}
\* (user, job id, top_k, min_similarity, categories) of the matching requests
MatchChoices ==
    {<<1, 1, DefaultTopK, 0, <<>> >>, <<1, 1, 2, 0, <<1>> >>,
     <<1, 1, DefaultTopK, 90, <<>> >>, <<1, 1, DefaultTopK, 0, <<3>> >>,
     <<2, 3, DefaultTopK, 0, <<>> >>}
\* (user, job id, narrative_type, use_insight_ids) of the narrative requests
NarrativeChoices ==
    {<<1, 1, "summary", <<>> >>, <<1, 1, "summary", <<1, 8>> >>,
     <<1, 1, "summary", <<2, 5>> >>, <<2, 3, "summary", <<>> >>,
     <<1, 1, "bogus", <<>> >>, <<1, 1, "summary", <<1, 2, 3, 4, 5, 6, 7, 9>> >>}
     \cup {<<uj[1], uj[2], "summary", <<>> >> : uj \in OtherJobChoices}
\* (user, insight id) of the update requests
UpdateChoices == {<<1, 1>>, <<1, 7>>, <<2, 8>>, <<2, 1>>}
MinSimilarityChoices == {0, 90}
CategoryChoices == {<<>>, <<1>>, <<3>>}

\* the statement of the narrative block that raises (0: none)
FailChoices == {0, 1, 2, 3, 4}

\* one worker serving one request at a time; the only database faults are
\* those of the narrative block
Next ==
    \/ \E m \in MatchChoices :
          match_insights_to_job(1, m[1], m[2], m[3], m[4], m[5], TRUE)
    \/ \E uj \in OwnJobChoices :
          match_insights_to_job(1, uj[1], uj[2], DefaultTopK, DefaultMinSimilarity,
                                <<>>, FALSE)
    \/ \E k \in {0, MaxTopK + 1} :
          match_insights_to_job(1, 1, 1, k, DefaultMinSimilarity, <<>>, TRUE)
    \/ \E uj \in OtherJobChoices :
          match_insights_to_job(1, uj[1], uj[2], DefaultTopK, DefaultMinSimilarity,
                                <<>>, TRUE)
    \/ \E n \in NarrativeChoices : generate_narrative(1, n[1], n[2], n[3], n[4])
    \/ \E ok \in BOOLEAN, fail_at \in FailChoices : generate_narrative_finish(1, ok, fail_at)
    \/ \E ui \in UpdateChoices :
          perform_update(1, ui[1], ui[2], ~insights[ui[2]].is_active,
                         insights[ui[2]].question, insights[ui[2]].content, TRUE)
    \/ \E uj \in {<<1, 1>>, <<2, 3>>, <<1, 3>>} : job_with_insights(1, uj[1], uj[2])

Spec == Init /\ [][Next]_vars

\* worker 1 recomputes matches, possibly hitting a database error, while
\* worker 2 reads
ReaderNext ==
    \/ \E ms \in MinSimilarityChoices, cats \in CategoryChoices :
          match_begin(1, 1, 1, DefaultTopK, ms, cats, TRUE)
    \/ match_delete(1)
    \/ \E ok \in BOOLEAN : match_insert(1, ok)
    \/ match_commit(1)
    \/ job_with_insights(2, 1, 1)

ReaderSpec == Init /\ [][ReaderNext]_vars

\* two workers serving requests of user 1 at the same time
ConcNext ==
    \E w \in Workers :
        \/ \E ms \in MinSimilarityChoices, cats \in {<<1>>, <<2>>} :
              match_begin(w, 1, 1, DefaultTopK, ms, cats, TRUE)
        \/ match_delete(w)
        \/ match_delete_resume(w)
        \/ match_insert(w, TRUE)
        \/ match_commit(w)
        \/ generate_narrative(w, 1, 1, "summary", <<>>)
        \/ generate_narrative_finish(w, TRUE, 0)

ConcSpec == Init /\ [][ConcNext]_vars

BonusInit ==
    /\ InitStore
    /\ b_in \in [job_title : TitleChoices, analysis_result : AnalysisChoices,
                 keywords : SeqsUpTo(KeywordChoices, MaxKw)]
    /\ b_out = -1
    /\ v_in = NoVectorCall
    /\ v_out = NoVectorCall

BonusNext == bonus_call

BonusSpec == BonusInit /\ [][BonusNext]_vars

\* vectors handed to calculate_similarity: every two-dimensional vector with
\* components in -2..2, and three of other lengths
VectorChoices ==
    {<<x, y>> : x \in -2..2, y \in -2..2} \cup {<<1>>, <<1, 1, 1>>, <<0, 0, 0>>}

\* service.calculate_similarity(a, b) and (b, a)
similarity_call ==
    /\ ~v_out.done
    /\ v_out' = [done |-> TRUE,
                 raised |-> SimilarityRaises(v_in.a, v_in.b),
                 ab |-> calculate_similarity(v_in.a, v_in.b),
                 ba |-> calculate_similarity(v_in.b, v_in.a),
                 float_ab |-> calculate_similarity_float(v_in.a, v_in.b),
                 float_ba |-> calculate_similarity_float(v_in.b, v_in.a)]
    /\ UNCHANGED <<career_categories, insights, matches, narratives, usages, pc, h,
                   resp, lastRun, reqs, b_in, b_out, v_in>>

VectorInit ==
    /\ InitStore
    /\ b_in = NoBonusIn
    /\ b_out = -1
    /\ v_in \in [a : VectorChoices, b : VectorChoices]
    /\ v_out = NoVectorCall

VectorNext == similarity_call

VectorSpec == VectorInit /\ [][VectorNext]_vars

\* candidate vectors of find_most_similar; NoEmbedding is a candidate without
\* vector (None)
CandidateChoices == {NoEmbedding, <<1, 0>>, <<2, 0>>, <<1, 1>>, <<0, 1>>}

TopChoices == {0, 1, 2, 5}

\* service.find_most_similar(query, candidates, top_k)
find_most_similar_call ==
    /\ ~v_out.done
    /\ v_out' = [done |-> TRUE,
                 result |-> find_most_similar(v_in.query, v_in.candidates, v_in.top_k)]
    /\ UNCHANGED <<career_categories, insights, matches, narratives, usages, pc, h,
                   resp, lastRun, reqs, b_in, b_out, v_in>>

TopKInit ==
    /\ InitStore
    /\ b_in = NoBonusIn
    /\ b_out = -1
    /\ v_in \in [query : {<<1, 0>>}, candidates : SeqsUpTo(CandidateChoices, MaxCandidates),
                 top_k : TopChoices]
    /\ v_out = NoVectorCall

TopKNext == find_most_similar_call

TopKSpec == TopKInit /\ [][TopKNext]_vars

\* insights are edited, with the embedding provider up or down, and matched
InsightNext ==
    \/ \E ui \in {<<1, 1>>, <<1, 7>>, <<2, 1>>},
          question \in {<<"q">>, <<"r">>}, content \in {<<"a">>, <<"n">>},
          api_ok \in BOOLEAN :
          perform_update(1, ui[1], ui[2], TRUE, question, content, api_ok)
    \/ match_insights_to_job(1, 1, 1, DefaultTopK, 0, <<>>, TRUE)

InsightSpec == Init /\ [][InsightNext]_vars

\* keyword lists a request may send
KeywordListChoices == {<< >>, << <<"i","t">> >>}

\* users edit and delete career categories between matching runs and
\* narrative generations
CategoryNext ==
    \/ \E uj \in OwnJobChoices :
          match_insights_to_job(1, uj[1], uj[2], DefaultTopK, 0, <<>>, TRUE)
    \/ \E u \in Users, c \in {1, 2}, keywords \in KeywordListChoices :
          category_update(1, u, c, keywords)
    \/ \E u \in Users, c \in {1, 2} : category_destroy(1, u, c)
    \/ generate_narrative(1, 1, 1, "summary", <<>>)
    \/ generate_narrative_finish(1, TRUE, 0)

CategorySpec == Init /\ [][CategoryNext]_vars

---------------------------------------------------------------------------
(* Properties *)

\* C1: after a match_insights_to_job call that answers 200, the job's stored
\* Match rows are exactly the rows that call computed; no row of an earlier
\* computation remains, also when the call computes fewer rows or none.
C1_StoredIsComputed ==
    \A w \in Workers :
        (resp[w].op = "match" /\ resp[w].status = 200) =>
            /\ Stored(Committed, resp[w].job).rows = SeqToSet(resp[w].computed)
            /\ Stored(Committed, resp[w].job).n = Len(resp[w].computed)

\* C2: in every reachable state, whatever recomputations and narrative
\* generations have run or are running, no two stored Match rows have the same
\* (job, insight) pair.
C2_OneMatchPerPair ==
    \A r1, r2 \in Committed :
        (r1.job = r2.job /\ r1.insight = r2.insight) => r1 = r2

\* a recomputation ran into the row another recomputation had just stored
C2_Witness ==
    \E w \in Workers :
        /\ pc[w] = "m_insert"
        /\ h[w].failed
        /\ \E r \in Committed : r.job = h[w].job /\ r.insight \in
               {h[w].queried[k].id : k \in 1..Len(h[w].queried)}

\* C3: replacing a job's match set is atomic. While a recomputation is inside
\* its block, what any other session can read of the job is the complete prior
\* set, and that is what a concurrent reader has read; once the block commits
\* it is the complete new set; if the recomputation fails, the prior set is
\* still there in full and none of the inserts is.
C3_AtomicReplace ==
    /\ \A w \in Workers :
           (resp[w].op = "read" /\ resp[w].status = 200 /\ resp[w].during) =>
               resp[w].seen = resp[w].prior
    /\ \A w \in Workers :
           pc[w] = "m_insert" =>
               Ids(JobRows(Committed, h[w].job)) = h[w].prior
    /\ \A w \in Workers :
           (resp[w].op = "match" /\ resp[w].status = 200 /\ resp[w].committed) =>
               /\ Stored(Committed, resp[w].job).rows = SeqToSet(resp[w].computed)
               /\ Stored(Committed, resp[w].job).n = Len(resp[w].computed)
               /\ Ids(JobRows(Committed, resp[w].job)) \cap resp[w].prior = {}
    /\ \A w \in Workers :
           (resp[w].op = "match" /\ resp[w].status = 200 /\ resp[w].rolled_back) =>
               /\ Ids(JobRows(Committed, resp[w].job)) = resp[w].prior
               /\ \A r \in matches : r.ins = 0 /\ r.del = 0

\* a reader has read the job's rows while a recomputation had deleted the old
\* rows and inserted new ones in its block
C3_Witness ==
    \E w \in Workers, x \in Workers :
        /\ resp[w].op = "read" /\ resp[w].during /\ resp[w].seen # {}
        /\ pc[x] = "m_insert"
        /\ h[x].job = resp[w].job
        /\ \E r \in matches : r.job = h[x].job /\ r.ins = x
        /\ \E r \in matches : r.job = h[x].job /\ r.del = x

\* C4: every row a recomputation produces has relevance_score >= the call's
\* min_similarity and belongs to an insight with an embedding; no stored row
\* belongs to an insight without one, and such an insight does not make the
\* call fail: a call for the user's own job with valid parameters fails only
\* when the job embedding is missing.
C4_ThresholdAndEmbedding ==
    /\ \A w \in Workers :
           (resp[w].op = "match" /\ resp[w].status = 200) =>
               \A k \in 1..Len(resp[w].computed) :
                   /\ resp[w].computed[k].relevance_score >= resp[w].min_similarity
                   /\ insights[resp[w].computed[k].insight].embedding # NoEmbedding
    /\ \A r \in matches : insights[r.insight].embedding # NoEmbedding
    /\ \A w \in Workers :
           (resp[w].op = "match" /\ resp[w].status = 500) =>
               \/ resp[w].emb_failed
               \/ resp[w].job \notin JobIds
               \/ Jobs[resp[w].job].user # resp[w].user

\* a call with a high threshold, for a user who has an active insight without
\* embedding and active insights below the threshold, has stored two rows
C4_Witness ==
    /\ resp[1].op = "match" /\ resp[1].status = 200
    /\ resp[1].min_similarity = 90
    /\ Len(resp[1].computed) = 2
    /\ \E i \in DOMAIN insights :
           /\ insights[i].user = resp[1].user /\ insights[i].is_active
           /\ insights[i].embedding = NoEmbedding
    /\ \E i \in DOMAIN insights :
           /\ insights[i].user = resp[1].user /\ insights[i].is_active
           /\ insights[i].embedding # NoEmbedding
           /\ \A k \in 1..2 : resp[1].computed[k].insight # i

\* C5: the list match_insights_to_job returns has at most top_k entries, all
\* of them rows the call computed, in descending final_score order, and two
\* entries with equal final_score are in the order in which the call processed
\* their insights.
C5_RankedList ==
    \A w \in Workers :
        (resp[w].op = "match" /\ resp[w].status = 200) =>
            LET list == resp[w].matches
                processed == resp[w].computed
                Pos(x) == CHOOSE k \in 1..Len(processed) : processed[k] = x
            IN  /\ Len(list) <= resp[w].top_k
                /\ \A a \in 1..Len(list) : list[a] \in SeqToSet(processed)
                /\ \A a, b \in 1..Len(list) :
                       a < b =>
                           \/ list[a].final_score > list[b].final_score
                           \/ /\ list[a].final_score = list[b].final_score
                              /\ Pos(list[a]) < Pos(list[b])

\* a call has returned a list in which two entries have the same final_score,
\* below an entry that was processed after both
C5_Witness ==
    /\ resp[1].op = "match" /\ resp[1].status = 200
    /\ \E a, b \in 1..Len(resp[1].matches) :
           /\ a < b
           /\ resp[1].matches[a].final_score = resp[1].matches[b].final_score
           /\ \E c \in 1..(a - 1) :
                  resp[1].matches[c] = resp[1].computed[Len(resp[1].computed)]

\* C6: every Match row has final_score = relevance_score + category bonus,
\* relevance_score in [0, 1] and bonus in [0, 0.3]; final_score is not capped
\* at 1.0.
C6_FinalScore ==
    \A r \in matches :
        /\ r.final_score = r.relevance_score + r.category_match_bonus
        /\ r.relevance_score \in 0..One
        /\ r.category_match_bonus \in 0..BonusCap

\* relevance 1.0 with exactly one matching keyword: bonus 0.1, final 1.1
C6_Witness ==
    \E r \in Committed :
        /\ r.relevance_score = One
        /\ r.category_match_bonus = BonusStep
        /\ r.final_score = One + BonusStep
        /\ Cardinality({k \in 1..Len(career_categories[insights[r.insight].category]) :
               Contains(JobText(Jobs[r.job].job_title, Jobs[r.job].analysis_result),
                        LowerStr(career_categories[insights[r.insight].category][k]))}) = 1

\* C7: the category bonus is min(0.1 * n, 0.3), n the number of distinct
\* category keywords that occur, case-insensitively and as substrings, in the
\* job title plus description.
C7_BonusCountsDistinct ==
    b_out # -1 =>
        LET job_text == JobText(b_in.job_title, b_in.analysis_result)
            n == Cardinality({kw \in SeqToSet(b_in.keywords) :
                                 Contains(job_text, LowerStr(kw))})
        IN  b_out = Min(BonusStep * n, BonusCap)

\* C8: a match_insights_to_job call whose job text, insights, embeddings and
\* parameters are those of the job's previous call returns the same ranked
\* list and leaves the same stored set as that call, row ids aside.
C8_Idempotent ==
    \A w \in Workers :
        (resp[w].op = "match" /\ resp[w].status = 200 /\ resp[w].repeat) =>
            /\ resp[w].matches = resp[w].prev_matches
            /\ resp[w].stored = resp[w].prev_stored
            /\ Stored(Committed, resp[w].job) = resp[w].prev_stored

\* a call has repeated the job's previous call, which had stored several rows
C8_Witness ==
    /\ resp[1].op = "match" /\ resp[1].status = 200 /\ resp[1].repeat
    /\ Len(resp[1].prev_matches) >= 2
    /\ resp[1].prior # {}

\* C9: a match_insights_to_job call that cannot obtain the job embedding
\* answers 500 and changes no Match row.
C9_EmbeddingUnavailable ==
    [][\A w \in Workers :
          (resp'[w] # resp[w] /\ resp'[w].op = "match" /\ resp'[w].emb_failed) =>
              (resp'[w].status = 500 /\ matches' = matches)]_vars

\* the provider failed for a job that has stored rows
C9_Witness ==
    /\ resp[1].op = "match" /\ resp[1].emb_failed /\ resp[1].status = 500
    /\ resp[1].prior # {}
    /\ Ids(JobRows(Committed, resp[1].job)) = resp[1].prior

\* C10: a generate_narrative call without explicit insight ids that succeeds
\* has used the insights of the job's stored Match rows with the 5 highest
\* final_score values, in descending final_score order, all of them if the job
\* has fewer than 5; the job has at least one stored Match row, written by a
\* matching run.
C10_DefaultSelection ==
    \A w \in Workers :
        (resp[w].op = "narrative" /\ resp[w].status = 201 /\ resp[w].explicit = <<>>) =>
            LET rows == JobRows(Committed, resp[w].job)
                used == resp[w].insights_used
                Row(i) == CHOOSE r \in rows : r.insight = i
            IN  /\ rows # {}
                /\ lastRun[resp[w].job].valid
                /\ Len(used) = Min(DefaultCount, Cardinality(rows))
                /\ \A a \in 1..Len(used) : \E r \in rows : r.insight = used[a]
                /\ \A a, b \in 1..Len(used) : a < b => used[a] # used[b]
                /\ \A a, b \in 1..Len(used) :
                       a < b => Row(used[a]).final_score >= Row(used[b]).final_score
                /\ \A r \in rows :
                       r.insight \notin SeqToSet(used) =>
                           r.final_score <= Row(used[Len(used)]).final_score

\* a narrative was generated for a job with more than 5 stored rows of
\* different scores
C10_Witness ==
    /\ resp[1].op = "narrative" /\ resp[1].status = 201 /\ resp[1].explicit = <<>>
    /\ Len(resp[1].insights_used) = DefaultCount
    /\ Cardinality(JobRows(Committed, resp[1].job)) > DefaultCount
    /\ \E r1, r2 \in JobRows(Committed, resp[1].job) : r1.final_score < r2.final_score

C12_ExplicitOwnedOnly ==
    \A w \in Workers :
        (resp[w].op = "narrative" /\ resp[w].explicit # <<>>) =>
            LET resolved == {i \in SeqToSet(resp[w].explicit) :
                                /\ i \in DOMAIN insights
                                /\ insights[i].user = resp[w].user
                                /\ insights[i].is_active}
            IN  /\ resp[w].status = 201 =>
                       /\ SeqToSet(resp[w].insights_used) = resolved
                       /\ {x.insight : x \in {y \in usages :
                              y.narrative = resp[w].narrative}} = resolved
                /\ (resp[w].status = 400 /\ resp[w].ntype \in NarrativeTypes) =>
                       resolved = {}

\* ids [1, 8] with insight 8 owned by another user: exactly insight 1 is used,
\* with weight 1.0
C12_Witness ==
    /\ resp[1].op = "narrative" /\ resp[1].status = 201
    /\ resp[1].explicit = <<1, 8>>
    /\ insights[8].user # resp[1].user
    /\ resp[1].insights_used = <<1>>
    /\ {x \in usages : x.narrative = resp[1].narrative}
           = {[narrative |-> resp[1].narrative, insight |-> 1, usage_weight |-> One]}

\* C13: when explicit insight ids are given, the selected insights are in the
\* order of the ids in the request.
C13_CallerOrder ==
    \A w \in Workers :
        (resp[w].op = "narrative" /\ resp[w].status = 201 /\ resp[w].explicit # <<>>) =>
            LET Resolves(i) == /\ i \in DOMAIN insights
                               /\ insights[i].user = resp[w].user
                               /\ insights[i].is_active
            IN  resp[w].insights_used = SelectSeq(resp[w].explicit, Resolves)

\* C14: generate_narrative without explicit ids for a job of the caller that
\* has no Match rows answers 200.
C14_NoMatchesIsNotAnError ==
    \A w \in Workers :
        (/\ resp[w].op = "narrative"
         /\ resp[w].explicit = <<>>
         /\ resp[w].ntype \in NarrativeTypes
         /\ resp[w].job \in JobIds
         /\ Jobs[resp[w].job].user = resp[w].user
         /\ JobRows(Committed, resp[w].job) = {}) =>
            resp[w].status = 200

\* C15: there is at most one Narrative per (job, narrative type); every usage
\* link belongs to an existing Narrative; after a successful regeneration the
\* prior Narrative of that type and its usage links are gone and the usage
\* links of that (job, type) are those of the new Narrative.
C15_OneNarrativePerType ==
    /\ \A n1, n2 \in narratives :
           (n1.job = n2.job /\ n1.ntype = n2.ntype) => n1 = n2
    /\ \A x \in usages : \E n \in narratives : n.id = x.narrative
    /\ \A w \in Workers :
           (resp[w].op = "narrative" /\ resp[w].status = 201) =>
               /\ \A n \in narratives : n.id \notin resp[w].replaced
               /\ \A x \in usages : x.narrative \notin resp[w].replaced
               /\ \A n \in narratives :
                      (n.job = resp[w].job /\ n.ntype = resp[w].ntype) =>
                          n.id = resp[w].narrative
               /\ {x.insight : x \in {y \in usages : y.narrative = resp[w].narrative}}
                      = SeqToSet(resp[w].insights_used)

\* a narrative has replaced an earlier one of the same job and type
C15_Witness ==
    /\ resp[1].op = "narrative" /\ resp[1].status = 201
    /\ resp[1].replaced # {}
    /\ \E x \in usages : x.narrative = resp[1].narrative

\* C16: when generate_narrative succeeds, the new Narrative has exactly one
\* usage link for each selected insight, every Match row of the job whose
\* insight is in the usage list has used_in_narrative = true, and the Match
\* rows of other jobs are as before.
C16_UsageAndFlags ==
    [][\A w \in Workers :
          (resp'[w] # resp[w] /\ resp'[w].op = "narrative" /\ resp'[w].status = 201) =>
              LET used == resp'[w].insights_used
                  links == {x \in usages' : x.narrative = resp'[w].narrative}
              IN  /\ \A k \in 1..Len(used) :
                         Cardinality({x \in links : x.insight = used[k]}) = 1
                  /\ Cardinality(links) = Len(used)
                  /\ \A m \in matches' :
                         (m.job = resp'[w].job /\ m.insight \in {x.insight : x \in links})
                             => m.used
                  /\ {m \in matches' : m.job # resp'[w].job}
                         = {m \in matches : m.job # resp'[w].job}]_vars

\* a narrative was generated for a job with Match rows while another job has
\* Match rows too
C16_Witness ==
    /\ resp[1].op = "narrative" /\ resp[1].status = 201
    /\ \E m \in matches : m.job = resp[1].job /\ m.used
    /\ \E m \in matches : m.job # resp[1].job

\* C17: when text generation fails, or a statement that persists the new
\* Narrative or its usage links fails, the Narrative rows, the usage links and
\* the Match rows (with their used_in_narrative flags) are as before the call.
C17_FailureLeavesNoTrace ==
    [][\A w \in Workers :
          (pc[w] = "n_gen" /\ resp'[w].op = "narrative" /\ resp'[w].status = 500) =>
              /\ narratives' = narratives
              /\ usages' = usages
              /\ matches' = matches]_vars

\* persisting failed after the prior narrative of the job and type had been
\* deleted inside the block; the prior narrative is still there
C17_Witness ==
    /\ resp[1].op = "narrative" /\ resp[1].status = 500
    /\ resp[1].error = "Failed to generate narrative"
    /\ resp[1].replaced # {}
    /\ \A id \in resp[1].replaced : \E n \in narratives : n.id = id
    /\ \E x \in usages : x.narrative \in resp[1].replaced

\* C18: in every reachable state an insight's embedding is absent or is the
\* one generated from the insight's currently saved question and content.
C18_EmbeddingNeverStale ==
    \A i \in DOMAIN insights :
        \/ insights[i].embedding = NoEmbedding
        \/ insights[i].embedding =
               ProviderVector(CombinedText(insights[i].question, insights[i].content))

\* C19: no request of one user creates, changes or deletes an Insight or Match
\* row owned by another user, and every Match row links a job and an insight
\* of the same owner.
C19_PerUserIsolation ==
    [][\A w \in Workers :
          (resp'[w] # resp[w] \/ pc'[w] # pc[w]) =>
              LET actor == IF pc'[w] # "idle" THEN h'[w].user ELSE resp'[w].user
              IN  /\ \A i \in DOMAIN insights :
                         insights[i].user # actor =>
                             (i \in DOMAIN insights' /\ insights'[i] = insights[i])
                  /\ \A i \in DOMAIN insights' \ DOMAIN insights :
                         insights'[i].user = actor
                  /\ \A r \in matches : Jobs[r.job].user # actor => r \in matches'
                  /\ \A r \in matches' \ matches : Jobs[r.job].user = actor
                  /\ \A r \in matches' :
                         /\ r.insight \in DOMAIN insights'
                         /\ Jobs[r.job].user = insights'[r.insight].user]_vars

\* C20: once seeded, the career categories and their keyword lists are never
\* changed or removed by a request.
C20_CategoriesReadOnly ==
    career_categories = Keywords

\* C21: match_insights_to_job and generate_narrative called with a job id that
\* does not exist or belongs to another user answer 404, not 500, and change
\* no Match, Narrative or usage row.
C21_MissingJobIsNotFound ==
    [][\A w \in Workers :
          (/\ resp'[w] # resp[w]
           /\ resp'[w].op \in {"match", "narrative"}
           /\ (resp'[w].job \notin JobIds \/ Jobs[resp'[w].job].user # resp'[w].user)) =>
              /\ resp'[w].status = 404
              /\ matches' = matches
              /\ narratives' = narratives
              /\ usages' = usages]_vars

\* C22: calculate_similarity returns exactly 0.0 when either vector has zero
\* magnitude; otherwise it returns (cos + 1) / 2, here to the hundredth below
\* for cos >= 0 and above for cos < 0; the result always lies in [0, 1], in
\* exact and in floating-point arithmetic, and the two agree to a hundredth.
C22_SimilarityRange ==
    v_out.done =>
        LET a == v_in.a
            b == v_in.b
            dot == Dot(a, b)
            prod == Dot(a, a) * Dot(b, b)
            dist == IF v_out.ab >= 50 THEN v_out.ab - 50 ELSE 50 - v_out.ab
        IN  /\ ~v_out.raised
            /\ v_out.ab \in 0..One
            /\ v_out.float_ab \in 0..FloatOne
            /\ (Dot(a, a) = 0 \/ Dot(b, b) = 0) =>
                   (v_out.ab = 0 /\ v_out.float_ab = 0)
            /\ (Len(a) = Len(b) /\ prod # 0) =>
                   /\ dist * dist * prod <= 2500 * dot * dot
                   /\ (dist + 1) * (dist + 1) * prod > 2500 * dot * dot
                   /\ (dot > 0 => v_out.ab > 50) /\ (dot < 0 => v_out.ab < 50)
                   /\ One * v_out.float_ab >= (v_out.ab - 1) * FloatOne
                   /\ One * v_out.float_ab <= (v_out.ab + 1) * FloatOne

\* the similarity of a zero vector and a non-zero vector was computed
C22_Witness ==
    /\ v_out.done
    /\ v_in.a = <<0, 0>>
    /\ v_in.b = <<1, 2>>
    /\ v_out.ab = 0 /\ v_out.float_ab = 0

\* C23: for every non-zero vector v and all equal-length vectors a, b:
\* calculate_similarity(v, v) = 1.0, calculate_similarity(v, -v) = 0.0 and
\* calculate_similarity(a, b) = calculate_similarity(b, a).
C23_SimilarityAlgebra ==
    (v_out.done /\ Len(v_in.a) = Len(v_in.b)) =>
        LET a == v_in.a
            b == v_in.b
        IN  /\ v_out.ab = v_out.ba
            /\ v_out.float_ab = v_out.float_ba
            /\ (Dot(a, a) # 0 /\ b = a) =>
                   (v_out.ab = One /\ v_out.float_ab = FloatOne)
            /\ (Dot(a, a) # 0 /\ b = [k \in 1..Len(a) |-> -a[k]]) =>
                   (v_out.ab = 0 /\ v_out.float_ab = 0)

\* C24: calculate_similarity on two vectors of different lengths ends in an
\* error and returns no score, so no threshold can accept the pair.
C24_MismatchFailsFast ==
    (v_out.done /\ DotRaises(v_in.a, v_in.b)) =>
        /\ v_out.raised
        /\ ~PassesThreshold(v_out.ab, 0)

\* C25: find_most_similar skips the candidates without vector, returns at most
\* top_k entries, the top_k best of the others, sorted by similarity
\* descending with ties in candidate order, and each entry's index is the
\* candidate's position in the original list, skipped candidates counted.
C25_TopK ==
    v_out.done =>
        LET res == v_out.result
            cands == v_in.candidates
            present == {i \in 1..Len(cands) : cands[i] # NoEmbedding}
            returned == {res[k].index + 1 : k \in 1..Len(res)}
            Sim(i) == calculate_similarity(v_in.query, cands[i])
        IN  /\ Len(res) = Min(v_in.top_k, Cardinality(present))
            /\ returned \subseteq present
            /\ Cardinality(returned) = Len(res)
            /\ \A k \in 1..Len(res) : res[k].similarity = Sim(res[k].index + 1)
            /\ \A a, b \in 1..Len(res) :
                   a < b =>
                       \/ res[a].similarity > res[b].similarity
                       \/ /\ res[a].similarity = res[b].similarity
                          /\ res[a].index < res[b].index
            /\ \A i \in present \ returned, j \in returned :
                   \/ Sim(i) < Sim(j)
                   \/ Sim(i) = Sim(j) /\ j < i

\* the list was cut to top_k = 2 of three candidates with vector; the first
\* candidate had none, and the two returned tie
C25_Witness ==
    /\ v_out.done
    /\ v_in.top_k = 2
    /\ v_in.candidates = << NoEmbedding, <<1, 1>>, <<2, 0>>, <<1, 0>> >>
    /\ v_out.result = << [index |-> 2, similarity |-> One], [index |-> 3, similarity |-> One] >>

C27_UsedFlagFollowsUsage ==
    \A n \in narratives, x \in usages, r \in Committed :
        (x.narrative = n.id /\ r.job = n.job /\ r.insight = x.insight) => r.used

\* C28: under any interleaving of a default-mode generate_narrative with a
\* concurrent recomputation of the same job's matches, at the moment the
\* narrative is committed every insight in its usage links has a Match row
\* for that job and that row has used_in_narrative = true.
C28_LinkedInsightsHaveUsedRows ==
    [][\A w \in Workers :
          (/\ pc[w] = "n_gen"
           /\ resp'[w].op = "narrative"
           /\ resp'[w].status = 201
           /\ resp'[w].explicit = <<>>) =>
              \A x \in usages' :
                  x.narrative = resp'[w].narrative =>
                      \E r \in matches' :
                          /\ r.ins = 0
                          /\ r.job = resp'[w].job
                          /\ r.insight = x.insight
                          /\ r.used]_vars

\* C29: when two match_insights_to_job calls for the same job have both
\* answered, the job's Match rows are exactly the complete result of one of
\* the two calls (no duplicate pair, no mixture of rows from both), and a call
\* that answers 200 with a non-empty list has every returned match stored as
\* a row when it answers.
C29_ConcurrentRunsSerialize ==
    [][/\ (\A w \in Workers :
              /\ pc'[w] = "idle"
              /\ resp'[w].op = "match"
              /\ resp'[w].status = 200
              /\ resp'[w].job = 1)
          => \E w \in Workers :
                 LET now == {Proj(r) : r \in {x \in matches' : x.ins = 0 /\ x.job = 1}}
                 IN  /\ now = SeqToSet(resp'[w].computed)
                     /\ Cardinality({x \in matches' : x.ins = 0 /\ x.job = 1})
                            = Len(resp'[w].computed)
       /\ \A w \in Workers :
              (/\ resp'[w] # resp[w]
               /\ resp'[w].op = "match"
               /\ resp'[w].status = 200) =>
                  \A k \in 1..Len(resp'[w].matches) :
                      \E r \in matches' :
                          /\ r.ins = 0
                          /\ r.job = resp'[w].job
                          /\ Proj(r) = resp'[w].matches[k]]_vars

\* C30: every insight recorded in a Narrative's usage links was active and
\* owned by the narrative's owner when the narrative was generated, whether
\* it came from explicit ids or from the job's stored Match rows.
C30_UsedInsightsActiveAndOwned ==
    \A w \in Workers :
        (resp[w].op = "narrative" /\ resp[w].status = 201) =>
            \A x \in usages :
                x.narrative = resp[w].narrative =>
                    /\ x.insight \in DOMAIN insights
                    /\ insights[x.insight].user = resp[w].user
                    /\ insights[x.insight].is_active

====
